---- MODULE Spec2Model ----
(***************************************************************************)
(* The identifier-masking service of syumaiumai/idmasker, in its two       *)
(* variants:                                                               *)
(*   "app" : src/app.py             (key read from the environment on      *)
(*                                   every request, /prefill redirect)     *)
(*   "api" : src/encryption-api.py  (key read once into a global cipher)   *)
(* A state is one running process: the FERNET_KEY environment variable,    *)
(* the global cipher of the "api" variant, and the last request with its   *)
(* response.  The service stores no token.                                 *)
(***************************************************************************)
EXTENDS Integers, Sequences, FiniteSets, TLC

VARIABLES variant, env, cipher, req, resp

vars == <<variant, env, cipher, req, resp>>

(***************************************************************************)
(* Bounds of the model and the program's constant.                         *)
(***************************************************************************)
MaxBody == 1            \* explicit leading characters of a plaintext
MaxTemplate == 4        \* characters of a /prefill template

MAX_RAW_LEN == 256      \* len(raw) > 256 is rejected (app.py)

(***************************************************************************)
(* Strings.  A text string is `body` followed by `pad` copies of the       *)
(* ordinary one-byte character "x", so that lengths around 256 are         *)
(* representable.  Body characters: "a" ordinary, " " whitespace, "u" a    *)
(* lone surrogate (JSON "\ud800": a Python str that UTF-8 cannot encode).  *)
(***************************************************************************)
Str(body, pad) == [body |-> body, pad |-> pad]

EmptyStr == Str(<<>>, 0)

StrLen(s) == Len(s.body) + s.pad

\* s.strip() == "" : only whitespace
IsBlank(s) == s.pad = 0 /\ \A i \in 1..Len(s.body) : s.body[i] = " "

\* s.encode() succeeds (UTF-8 refuses lone surrogates)
Encodable(s) == \A i \in 1..Len(s.body) : s.body[i] # "u"

SeqsUpTo(S, n) == UNION {[1..k -> S] : k \in 0..n}

Pads == {0, 256}

JsonStrings == {Str(b, p) : b \in SeqsUpTo({"a", " ", "u"}, MaxBody), p \in Pads}

\* query-string values are decoded with errors="replace": no lone surrogate
ArgStrings == {Str(b, p) : b \in {<<>>, <<"a">>, <<" ">>}, p \in Pads}

Templates == SeqsUpTo({"I", "D"}, MaxTemplate)

(***************************************************************************)
(* JSON values of the RawID / SurveyID field.  t = "none": absent or null, *)
(* "num": a number, "str": a text string, "tok": a string that spells a    *)
(* token.                                                                  *)
(***************************************************************************)
JNone == [t |-> "none", n |-> 0, s |-> EmptyStr, tok |-> {}]
JNum(n) == [t |-> "num", n |-> n, s |-> EmptyStr, tok |-> {}]
JStr(s) == [t |-> "str", n |-> 0, s |-> s, tok |-> {}]
JTok(k) == [t |-> "tok", n |-> 0, s |-> EmptyStr, tok |-> {k}]

IsString(v) == v.t \in {"str", "tok"}

\* Python truthiness: `not v`
Truthy(v) ==
    CASE v.t = "none" -> FALSE
      [] v.t = "num" -> v.n # 0
      [] v.t = "str" -> StrLen(v.s) > 0
      [] v.t = "tok" -> TRUE

DigitChars == <<"0", "1", "2", "3", "4", "5", "6", "7", "8", "9">>

\* str(v) of a one-digit number
PyStr(v) == Str(<<DigitChars[v.n + 1]>>, 0)

(***************************************************************************)
(* Response texts.  A text is a fixed literal followed by the str() of a   *)
(* caught exception (a sequence of words, <<>> when there is none).        *)
(***************************************************************************)
Text(lit, exc) == [lit |-> lit, exc |-> exc]

Lit(lit) == Text(lit, <<>>)

NoText == Lit("")

\* str(e) of the exceptions the handlers can catch
ExcStr(e) ==
    CASE e = "InvalidToken" -> <<>>
      [] e = "ValueError" ->
           <<"Fernet", "key", "must", "be", "32", "url-safe", "base64-encoded", "bytes.">>
      [] e = "AttributeError" ->
           <<"'int'", "object", "has", "no", "attribute", "'strip'">>
      [] e = "UnicodeEncodeError" ->
           <<"'utf-8'", "codec", "can't", "encode", "character", "'\\ud800'", "in",
             "position", "0:", "surrogates", "not", "allowed">>
      [] e = "BadRequest" ->
           <<"400", "Bad", "Request:", "Failed", "to", "decode", "JSON", "object">>

\* "Invalid token" in str(e)
HasInvalidToken(words) ==
    \E i \in 1..(Len(words) - 1) : words[i] = "Invalid" /\ words[i + 1] = "token"

\* "decrypt" in str(e).lower(): no word of the texts above contains it
HasDecrypt(words) == \E i \in 1..Len(words) : words[i] \in {"decrypt", "Decrypt"}

Resp(status, error, message) ==
    [status |-> status, error |-> error, message |-> message, info |-> "",
     SurveyID |-> {}, RawID |-> {}, location |-> <<>>, key |-> {}]

NoResp == Resp(0, NoText, NoText)

(***************************************************************************)
(* cryptography.fernet.Fernet, as the handlers use it.  A token is the     *)
(* URL-safe base64 spelling of                                             *)
(*   version (0x80) | timestamp | iv | AES-CBC ciphertext | HMAC           *)
(* The ciphertext is the abstract value "pt sealed under key with iv"; the *)
(* HMAC is the abstract value "key signed version|timestamp|iv|ct".        *)
(***************************************************************************)
EnvValues == {"", "bad", "k1", "k2"}

ValidKeys == {"k1", "k2"}

\* Fernet(key): the key must decode to 32 bytes, else ValueError
FernetKeyOk(key) == key \in ValidKeys

Times == {1}

IVs == {1, 2}

Signed(data) == [version |-> data.version, ts |-> data.ts, iv |-> data.iv, ct |-> data.ct]

TokenBytes(key, pt, ts, iv) ==
    LET ct == [key |-> key, iv |-> iv, pt |-> pt]
        body == [version |-> 128, ts |-> ts, iv |-> iv, ct |-> ct]
    IN  [version |-> 128, ts |-> ts, iv |-> iv, ct |-> ct,
         hmac |-> [key |-> key, signed |-> body]]

\* PKCS7: the plaintext is padded to whole 16-byte blocks, always at least one byte
Blocks(pt) == (StrLen(pt) \div 16) + 1

ByteLen(data) == 1 + 8 + 16 + 16 * Blocks(data.ct.pt) + 32

\* bits of the last base64 character that decode to nothing
SlackBits(data) ==
    CASE ByteLen(data) % 3 = 0 -> 0
      [] ByteLen(data) % 3 = 1 -> 4
      [] ByteLen(data) % 3 = 2 -> 2

\* base64.urlsafe_b64encode
B64Encode(data) == [bytes |-> data, spelling |-> "canonical"]

\* base64.urlsafe_b64decode: non-canonical spellings decode to the same bytes
B64Decode(tok) ==
    [ok |-> tok.spelling # "broken", bytes |-> tok.bytes]

\* Fernet.encrypt(pt) at time ts with os.urandom iv
FernetEncrypt(key, pt, ts, iv) == B64Encode(TokenBytes(key, pt, ts, iv))

\* Fernet.decrypt(token), ttl=None: {} stands for InvalidToken
FernetDecrypt(key, tok) ==
    LET d == B64Decode(tok)
        data == d.bytes
    IN  IF ~d.ok THEN {}
        ELSE IF data.version # 128 THEN {}
        ELSE IF data.hmac # [key |-> key, signed |-> Signed(data)] THEN {}
        ELSE IF data.ct.key # key \/ data.ct.iv # data.iv THEN {}
        ELSE {data.ct.pt}

\* Fernet.decrypt of a text string that spells no token: every string of
\* JsonStrings fails base64 decoding or the version check
FernetDecryptText(key, s) == {}

\* the strings that differ from tok in exactly one character
Tampered(tok) ==
    LET data == tok.bytes
    IN  {[tok EXCEPT !.spelling = "broken"],
         [tok EXCEPT !.bytes.version = 129],
         [tok EXCEPT !.bytes.ts = data.ts + 1],
         [tok EXCEPT !.bytes.iv = 0],
         [tok EXCEPT !.bytes.ct.pt = Str(<<"?">>, StrLen(data.ct.pt) - 1)],
         [tok EXCEPT !.bytes.hmac.key = "flipped"]}
    \cup (IF SlackBits(data) > 0 THEN {[tok EXCEPT !.spelling = "variant"]} ELSE {})

(***************************************************************************)
(* Key handling.                                                           *)
(***************************************************************************)
\* app.py get_cipher(): (cipher, err), read from the environment per call
get_cipher(e) ==
    IF e = "" THEN [cipher |-> {}, err |-> Lit("FERNET_KEY is not set")]
    ELSE IF FernetKeyOk(e) THEN [cipher |-> {e}, err |-> NoText]
    ELSE [cipher |-> {}, err |-> Text("Invalid FERNET_KEY: ", ExcStr("ValueError"))]

\* encryption-api.py initialize_cipher(): the cipher or None ({})
initialize_cipher(e) ==
    IF e = "" THEN {}
    ELSE IF FernetKeyOk(e) THEN {e}
    ELSE {}

KeyOf(c) == CHOOSE k \in c : TRUE

(***************************************************************************)
(* Requests.  A JSON body is "malformed" (not parseable), "empty" ({}) or  *)
(* a "dict" whose RawID / SurveyID field is val.  req.env is the           *)
(* environment the handler ran under, req.cipher the cipher it used, and   *)
(* req.own says that the token presented was issued by this process.       *)
(***************************************************************************)
Req(op, body, val, raw, template, e, c) ==
    [op |-> op, body |-> body, val |-> val, raw |-> raw, template |-> template,
     env |-> e, cipher |-> c, own |-> FALSE]

NoReq == Req("none", "", JNone, EmptyStr, <<>>, "", {})

\* an exception no handler catches: Flask's own 500 page
Unhandled == [Resp(500, Lit("Internal Server Error"), NoText) EXCEPT !.info = "unhandled"]

(***************************************************************************)
(* src/app.py                                                              *)
(***************************************************************************)
\* GET /
root == [Resp(200, NoText, NoText) EXCEPT !.info = "ok"]

\* GET /health
health == [Resp(200, NoText, NoText) EXCEPT !.info = "healthy"]

\* the length check with the boundary moved: len(raw) >= 256
TooLongOffByOne(s) == StrLen(s) >= MAX_RAW_LEN

\* len(raw) > 256
TooLong(s) == StrLen(s) > MAX_RAW_LEN

\* POST /encrypt
app_encrypt(e, body, val, ts, iv) ==
    LET c == get_cipher(e)
        raw == IF body = "dict" THEN val ELSE JNone
    IN  IF c.err # NoText THEN Resp(500, c.err, NoText)
        ELSE IF ~Truthy(raw) THEN Resp(400, Lit("RawID is required"), NoText)
        ELSE IF ~IsString(raw)
            THEN Resp(400, Lit("RawID must be a string"), NoText)
        ELSE IF TooLong(raw.s) THEN Resp(400, Lit("RawID too long"), NoText)
        ELSE IF ~Encodable(raw.s) THEN Unhandled
        ELSE LET token == FernetEncrypt(KeyOf(c.cipher), raw.s, ts, iv)
             IN  [Resp(200, NoText, NoText) EXCEPT !.SurveyID = {token},
                                                  !.info = "success"]

\* POST /decrypt
app_decrypt(e, body, val) ==
    LET c == get_cipher(e)
        survey == IF body = "dict" THEN val ELSE JNone
    IN  IF c.err # NoText THEN Resp(500, c.err, NoText)
        ELSE IF ~Truthy(survey) THEN Resp(400, Lit("SurveyID is required"), NoText)
        ELSE IF ~IsString(survey) THEN Resp(400, Lit("SurveyID must be a string"), NoText)
        ELSE IF survey.t = "str" /\ ~Encodable(survey.s) THEN Unhandled
        ELSE LET raw == IF survey.t = "tok"
                           THEN FernetDecrypt(KeyOf(c.cipher), KeyOf(survey.tok))
                           ELSE FernetDecryptText(KeyOf(c.cipher), survey.s)
             IN  IF raw = {}
                 THEN Resp(400, Lit("Invalid or corrupted SurveyID"), NoText)
                 ELSE [Resp(200, NoText, NoText) EXCEPT !.RawID = raw, !.info = "success"]

\* GET /generate-key
app_generate_key(k) == [Resp(200, NoText, NoText) EXCEPT !.key = {k}]

Ch(c) == [c |-> c, tok |-> {}]

TokItem(token) == [c |-> "", tok |-> {token}]

\* template.replace("ID", token, 1): only the first "ID"
RECURSIVE ReplaceFirst(_, _)
ReplaceFirst(t, token) ==
    IF t = <<>> THEN <<>>
    ELSE IF Len(t) >= 2 /\ t[1] = "I" /\ t[2] = "D"
        THEN <<TokItem(token)>> \o [i \in 1..(Len(t) - 2) |-> Ch(t[i + 2])]
    ELSE <<Ch(t[1])>> \o ReplaceFirst(Tail(t), token)

\* template.replace("ID", token): every non-overlapping "ID", left to right
RECURSIVE Replace(_, _)
Replace(t, token) ==
    IF t = <<>> THEN <<>>
    ELSE IF Len(t) >= 2 /\ t[1] = "I" /\ t[2] = "D"
        THEN <<TokItem(token)>> \o Replace(SubSeq(t, 3, Len(t)), token)
    ELSE <<Ch(t[1])>> \o Replace(Tail(t), token)

\* GET /prefill?raw=..&template=..
prefill(e, raw, template, ts, iv) ==
    IF StrLen(raw) = 0 \/ template = <<>>
    THEN Resp(400, Lit("raw and template are required"), NoText)
    ELSE IF TooLong(raw) THEN Resp(400, Lit("raw too long"), NoText)
    ELSE LET c == get_cipher(e)
         IN  IF c.err # NoText THEN Resp(500, c.err, NoText)
             ELSE IF ~Encodable(raw) THEN Unhandled
             ELSE LET token == FernetEncrypt(KeyOf(c.cipher), raw, ts, iv)
                  IN  [Resp(302, NoText, NoText)
                          EXCEPT !.location = Replace(template, token)]

(***************************************************************************)
(* src/encryption-api.py                                                   *)
(***************************************************************************)
\* GET /
home(c) ==
    IF c # {} THEN [Resp(200, NoText, NoText) EXCEPT !.info = "active"]
    ELSE [Resp(503, NoText, NoText) EXCEPT !.info = "error"]

\* GET /health
health_check(c) ==
    IF c = {}
    THEN [Resp(503, NoText,
               Lit("Cipher not initialized. Check FERNET_KEY environment variable."))
             EXCEPT !.info = "unhealthy"]
    ELSE [Resp(200, NoText, NoText) EXCEPT !.info = "healthy"]

\* encrypt(): except Exception as e
EncryptFailed(e) == Resp(500, Lit("Encryption failed"), Text("", ExcStr(e)))

\* POST /encrypt
api_encrypt(c, body, val, ts, iv) ==
    IF c = {}
    THEN Resp(503, Lit("Encryption service unavailable"),
                  Lit("FERNET_KEY not configured"))
    ELSE IF body = "malformed" THEN EncryptFailed("BadRequest")
    ELSE IF body = "empty" THEN Resp(400, Lit("No JSON data provided"), NoText)
    ELSE IF ~Truthy(val) THEN Resp(400, Lit("RawID is required"), NoText)
    ELSE LET raw_id == IF IsString(val) THEN val.s ELSE PyStr(val)
         IN  IF IsBlank(raw_id)
             THEN Resp(400, Lit("RawID cannot be empty"), NoText)
             ELSE IF ~Encodable(raw_id) THEN EncryptFailed("UnicodeEncodeError")
             ELSE LET token == FernetEncrypt(KeyOf(c), raw_id, ts, iv)
                  IN  [Resp(200, NoText, NoText) EXCEPT !.SurveyID = {token},
                                                       !.info = "success"]

\* decrypt(): except Exception as e
DecryptFailed(e) ==
    IF HasInvalidToken(ExcStr(e)) \/ HasDecrypt(ExcStr(e))
    THEN Resp(400, Lit("Invalid or corrupted SurveyID"),
              Lit("The provided SurveyID could not be decrypted"))
    ELSE Resp(500, Lit("Decryption failed"), Text("", ExcStr(e)))

\* POST /decrypt
api_decrypt(c, body, val) ==
    IF c = {}
    THEN Resp(503, Lit("Decryption service unavailable"), Lit("FERNET_KEY not configured"))
    ELSE IF body = "malformed" THEN DecryptFailed("BadRequest")
    ELSE IF body = "empty" THEN Resp(400, Lit("No JSON data provided"), NoText)
    ELSE IF ~Truthy(val) THEN Resp(400, Lit("SurveyID is required"), NoText)
    ELSE IF ~IsString(val) THEN DecryptFailed("AttributeError")
    ELSE IF val.t = "str" /\ IsBlank(val.s)
        THEN Resp(400, Lit("SurveyID cannot be empty"), NoText)
    ELSE IF val.t = "str" /\ ~Encodable(val.s) THEN DecryptFailed("UnicodeEncodeError")
    ELSE LET raw == IF val.t = "tok" THEN FernetDecrypt(KeyOf(c), KeyOf(val.tok))
                    ELSE FernetDecryptText(KeyOf(c), val.s)
         IN  IF raw = {} THEN DecryptFailed("InvalidToken")
             ELSE [Resp(200, NoText, NoText) EXCEPT !.RawID = raw, !.info = "success"]

\* GET /generate-key
api_generate_key(k) ==
    [Resp(200, NoText, Lit("Save this key as FERNET_KEY environment variable in Render"))
        EXCEPT !.key = {k}]

(***************************************************************************)
(* Inputs.                                                                 *)
(***************************************************************************)
Bodies(vals) == {<<"malformed", JNone>>, <<"empty", JNone>>} \cup {<<"dict", v>> : v \in vals}

EncryptVals == {JNone, JNum(0), JNum(5)} \cup {JStr(s) : s \in JsonStrings}

\* the tokens of a redirect target
LocationTokens(loc) == UNION {loc[i].tok : i \in 1..Len(loc)}

\* tokens this process handed out and the caller still holds: those of the last
\* response, or the own token the caller has just presented
OwnTokens ==
    resp.SurveyID \cup LocationTokens(resp.location)
        \cup (IF req.own THEN req.val.tok ELSE {})

\* tokens sealed elsewhere, under either key
ForeignTokens ==
    {FernetEncrypt(k, p, 1, 1) : k \in ValidKeys, p \in {Str(<<"a">>, 0), Str(<<>>, 32)}}

\* what a caller may present: sealed tokens and their one-character changes
Presentable ==
    OwnTokens \cup ForeignTokens \cup UNION {Tampered(t) : t \in OwnTokens \cup ForeignTokens}

DecryptVals ==
    {JNone, JNum(0), JNum(5)}
        \cup {JStr(Str(b, 0)) : b \in SeqsUpTo({"a", " ", "u"}, MaxBody)}
        \cup {JTok(t) : t \in Presentable}

(***************************************************************************)
(* The process.                                                            *)
(***************************************************************************)
Init ==
    /\ variant \in {"app", "api"}
    /\ env \in EnvValues
    /\ cipher = IF variant = "api" THEN initialize_cipher(env) ELSE {}
    /\ req = NoReq
    /\ resp = NoResp

Serve(r, response) ==
    /\ req' = r
    /\ resp' = response
    /\ UNCHANGED <<variant, env, cipher>>

\* the cipher a handler of app.py gets for this request
AppCipher == get_cipher(env).cipher

AppRoot ==
    /\ variant = "app"
    /\ Serve(Req("root", "", JNone, EmptyStr, <<>>, env, AppCipher), root)

AppHealth ==
    /\ variant = "app"
    /\ Serve(Req("health", "", JNone, EmptyStr, <<>>, env, AppCipher), health)

AppEncrypt ==
    /\ variant = "app"
    /\ \E b \in Bodies(EncryptVals), ts \in Times, iv \in IVs :
          Serve(Req("encrypt", b[1], b[2], EmptyStr, <<>>, env, AppCipher),
                app_encrypt(env, b[1], b[2], ts, iv))

AppDecrypt ==
    /\ variant = "app"
    /\ \E b \in Bodies(DecryptVals) :
          Serve([Req("decrypt", b[1], b[2], EmptyStr, <<>>, env, AppCipher)
                    EXCEPT !.own = (b[2].tok # {} /\ b[2].tok \subseteq OwnTokens)],
                app_decrypt(env, b[1], b[2]))

AppGenerateKey ==
    /\ variant = "app"
    /\ \E k \in ValidKeys :
          Serve(Req("generate-key", "", JNone, EmptyStr, <<>>, env, AppCipher),
                app_generate_key(k))

AppPrefill ==
    /\ variant = "app"
    /\ \E raw \in ArgStrings, template \in Templates, ts \in Times, iv \in IVs :
          Serve(Req("prefill", "", JNone, raw, template, env, AppCipher),
                prefill(env, raw, template, ts, iv))

ApiHome ==
    /\ variant = "api"
    /\ Serve(Req("root", "", JNone, EmptyStr, <<>>, env, cipher), home(cipher))

ApiHealthCheck ==
    /\ variant = "api"
    /\ Serve(Req("health", "", JNone, EmptyStr, <<>>, env, cipher), health_check(cipher))

ApiEncrypt ==
    /\ variant = "api"
    /\ \E b \in Bodies(EncryptVals), ts \in Times, iv \in IVs :
          Serve(Req("encrypt", b[1], b[2], EmptyStr, <<>>, env, cipher),
                api_encrypt(cipher, b[1], b[2], ts, iv))

ApiDecrypt ==
    /\ variant = "api"
    /\ \E b \in Bodies(DecryptVals) :
          Serve([Req("decrypt", b[1], b[2], EmptyStr, <<>>, env, cipher)
                    EXCEPT !.own = (b[2].tok # {} /\ b[2].tok \subseteq OwnTokens)],
                api_decrypt(cipher, b[1], b[2]))

ApiGenerateKey ==
    /\ variant = "api"
    /\ \E k \in ValidKeys :
          Serve(Req("generate-key", "", JNone, EmptyStr, <<>>, env, cipher),
                api_generate_key(k))

\* the FERNET_KEY configuration changes while the process runs
SetEnv ==
    /\ \E e \in EnvValues \ {env} : env' = e
    /\ UNCHANGED <<variant, cipher, req, resp>>

Next ==
    \/ AppRoot
    \/ AppHealth
    \/ AppEncrypt
    \/ AppDecrypt
    \/ AppGenerateKey
    \/ AppPrefill
    \/ ApiHome
    \/ ApiHealthCheck
    \/ ApiEncrypt
    \/ ApiDecrypt
    \/ ApiGenerateKey
    \/ SetEnv

Spec == Init /\ [][Next]_vars

(***************************************************************************)
(* Properties.                                                             *)
(***************************************************************************)
KeyConfigured == req.cipher # {}

ErrInvalidToken == Lit("Invalid or corrupted SurveyID")

\* the answer of this variant's /decrypt to token t, under the key of the request
Open(t) ==
    IF variant = "app" THEN app_decrypt(req.env, "dict", JTok(t))
    ELSE api_decrypt(req.cipher, "dict", JTok(t))

\* tok is what Fernet.encrypt returns under key
IsSealed(tok, key) ==
    /\ tok.spelling = "canonical"
    /\ tok.bytes = TokenBytes(key, tok.bytes.ct.pt, tok.bytes.ts, tok.bytes.iv)

EncryptOfString == req.op = "encrypt" /\ req.body = "dict" /\ req.val.t = "str"

\* /encrypt answered p with a token that /decrypt opens to p
SealedAndOpens(p) ==
    /\ resp.status = 200
    /\ resp.info = "success"
    /\ Cardinality(resp.SurveyID) = 1
    /\ \A t \in resp.SurveyID :
          /\ Open(t).status = 200
          /\ Open(t).info = "success"
          /\ Open(t).RawID = {p}

\* /decrypt was given a token this process issued, under the key that sealed it
DecryptOfOwn ==
    /\ req.op = "decrypt"
    /\ req.own
    /\ KeyConfigured
    /\ \A t \in req.val.tok : IsSealed(t, KeyOf(req.cipher))

\* C1 as stated: every plaintext of 1..256 characters (a string that has a
\* byte representation) round-trips through /encrypt and /decrypt under the
\* same key, in both variants.
C1_RoundTripEveryPlaintext ==
    (EncryptOfString /\ KeyConfigured
        /\ StrLen(req.val.s) > 0 /\ StrLen(req.val.s) <= MAX_RAW_LEN
        /\ Encodable(req.val.s))
    => SealedAndOpens(req.val.s)

\* C1, amended: every plaintext of 1..256 characters that is not blank after
\* trimming and that UTF-8 can encode is sealed by /encrypt into a token that
\* /decrypt opens to exactly that plaintext under the same key; and /decrypt
\* of a token this process issued, under the key that sealed it, answers
\* success with the plaintext sealed.
C1_RoundTrip ==
    /\ (EncryptOfString /\ KeyConfigured
           /\ StrLen(req.val.s) > 0 /\ StrLen(req.val.s) <= MAX_RAW_LEN
           /\ ~IsBlank(req.val.s) /\ Encodable(req.val.s))
       => SealedAndOpens(req.val.s)
    /\ DecryptOfOwn
       => /\ resp.status = 200
          /\ resp.info = "success"
          /\ \A t \in req.val.tok : resp.RawID = {t.bytes.ct.pt}

\* a plaintext of exactly 256 characters was sealed, presented back and opened
C1_Witness ==
    /\ DecryptOfOwn
    /\ resp.status = 200
    /\ \E p \in resp.RawID : StrLen(p) = MAX_RAW_LEN

\* C2: with a key configured, every failure to open a presented string
\* (malformed framing or failed authentication) is the 400 response
\* "Invalid or corrupted SurveyID".
C2_SingleErrorKind ==
    (/\ req.op = "decrypt"
     /\ KeyConfigured
     /\ req.body = "dict"
     /\ \/ req.val.t = "tok"
        \/ req.val.t = "str" /\ ~IsBlank(req.val.s) /\ Encodable(req.val.s)
     /\ resp.RawID = {})
    => (resp.status = 400 /\ resp.error = ErrInvalidToken)

\* C3: while no valid key is configured, seal and open requests return no
\* token or plaintext and report an error, and the health endpoint does not
\* report healthy.
C3_DegradedState ==
    ~KeyConfigured
    => /\ req.op \in {"encrypt", "decrypt", "prefill"}
          => /\ resp.status \in {400, 500, 503}
             /\ resp.SurveyID = {} /\ resp.RawID = {} /\ resp.location = <<>>
       /\ req.op = "health" => (resp.status # 200 /\ resp.info # "healthy")

\* C4: a token issued earlier by the running process can still be opened by
\* it later, whatever has happened to the FERNET_KEY configuration since.
C4_KeyLoadedOnce ==
    (req.op = "decrypt" /\ req.own)
    => /\ resp.status = 200
       /\ \A t \in req.val.tok : resp.RawID = {t.bytes.ct.pt}

SealRequest ==
    \/ EncryptOfString
    \/ req.op = "prefill" /\ req.template # <<>>

Plaintext == IF req.op = "prefill" THEN req.raw ELSE req.val.s

\* C5: with a key configured, seal rejects with a client error, and issues no
\* token for, a plaintext that is empty, blank after trimming or longer than
\* 256 characters.
C5_PolicyBoundary ==
    (/\ SealRequest
     /\ KeyConfigured
     /\ \/ StrLen(Plaintext) = 0
        \/ IsBlank(Plaintext)
        \/ StrLen(Plaintext) > MAX_RAW_LEN)
    => /\ resp.status = 400
       /\ resp.SurveyID = {}
       /\ LocationTokens(resp.location) = {}

\* C6: no response carries the text of a caught exception.
C6_NoExceptionText == resp.error.exc = <<>> /\ resp.message.exc = <<>>

\* plaintexts a process can seal
SealablePlaintexts ==
    {s \in JsonStrings \cup ArgStrings \cup {PyStr(JNum(5)), Str(<<>>, 32)} :
        StrLen(s) > 0 /\ Encodable(s)}

SealedUnder(key) ==
    {FernetEncrypt(key, p, ts, iv) : p \in SealablePlaintexts, ts \in Times, iv \in IVs}

\* C7: a token sealed under the configured key and changed in one character
\* fails to open, with the 400 response "Invalid or corrupted SurveyID".
C7_TamperDetection ==
    (/\ req.op = "decrypt"
     /\ KeyConfigured
     /\ req.val.t = "tok"
     /\ \E o \in SealedUnder(KeyOf(req.cipher)) : req.val.tok \subseteq Tampered(o))
    => /\ resp.status = 400
       /\ resp.error = ErrInvalidToken
       /\ resp.RawID = {}

\* C8: a token sealed under one valid key, presented to a process configured
\* with a different valid key, fails to open, with the 400 response
\* "Invalid or corrupted SurveyID".
C8_CrossKeyRejection ==
    (/\ req.op = "decrypt"
     /\ KeyConfigured
     /\ req.val.t = "tok"
     /\ \E k \in ValidKeys \ req.cipher : \A t \in req.val.tok : IsSealed(t, k))
    => /\ resp.status = 400
       /\ resp.error = ErrInvalidToken
       /\ resp.RawID = {}

\* the redirect target with every token put back as the two characters "ID"
RECURSIVE Restore(_)
Restore(loc) ==
    IF loc = <<>> THEN <<>>
    ELSE IF loc[1].tok # {} THEN <<"I", "D">> \o Restore(Tail(loc))
    ELSE <<loc[1].c>> \o Restore(Tail(loc))

\* the characters "ID" stand next to each other somewhere in items
HasPlaceholder(items) ==
    \E i \in 1..(Len(items) - 1) :
        /\ items[i].tok = {} /\ items[i].c = "I"
        /\ items[i + 1].tok = {} /\ items[i + 1].c = "D"

PrefillInvalid == StrLen(req.raw) = 0 \/ req.template = <<>> \/ StrLen(req.raw) > MAX_RAW_LEN

\* C10: /prefill answers an invalid raw or template with 400, before looking
\* at the key; valid input without a usable key with 500; and valid input
\* with a key with a 302 whose target is the template with every "ID", and
\* nothing else, replaced by one and the same token, which opens to raw.
C10_PrefillRedirect ==
    req.op = "prefill"
    => /\ PrefillInvalid => (resp.status = 400 /\ resp.location = <<>>)
       /\ (~PrefillInvalid /\ ~KeyConfigured) => (resp.status = 500 /\ resp.location = <<>>)
       /\ (~PrefillInvalid /\ KeyConfigured)
          => /\ resp.status = 302
             /\ Restore(resp.location) = req.template
             /\ ~HasPlaceholder(resp.location)
             /\ Cardinality(LocationTokens(resp.location)) <= 1
             /\ \A t \in LocationTokens(resp.location) :
                   /\ IsSealed(t, KeyOf(req.cipher))
                   /\ Open(t).status = 200
                   /\ Open(t).RawID = {req.raw}

\* a redirect whose template held "ID" twice, for a raw of exactly 256 characters
C10_Witness ==
    /\ req.op = "prefill"
    /\ resp.status = 302
    /\ StrLen(req.raw) = MAX_RAW_LEN
    /\ Len(resp.location) = 2
    /\ resp.location[1].tok # {}
    /\ resp.location[2].tok = resp.location[1].tok

====
